---- MODULE Spec2Model ----
(***************************************************************************)
(* Model of src/api/app.py: the rule-based URL risk scorer                 *)
(* (SVMModel.predict) and the model-state lifecycle (SVMModel.__init__,    *)
(* load_model, update_metrics, the /api/train handler and the readers).    *)
(*                                                                         *)
(* Numbers.  Every float of the source is kept as an integer number of     *)
(* ten-thousandths (0.92 is 9200, 0.05 is 500), one decimal digit finer    *)
(* than the 3-decimal rounding of predict, so that round(x, 3) is a real   *)
(* rounding step here.                                                     *)
(* Strings.  A URL is a sequence of one-character strings, so that         *)
(* lower(), startswith(), count(), len() and `in` are computed on the      *)
(* characters as the source computes them.                                 *)
(***************************************************************************)
EXTENDS Integers, Sequences, FiniteSets, TLC

VARIABLES
    phase,     \* "starting": module loaded, startup_event not yet run; "serving"; "crashed"
    kernel,    \* model.kernel
    metrics,   \* model.metrics
    store,     \* content of MODEL_DIR / "svm_model.pkl"
    pc,        \* per client: position of its /api/train handler, "idle" when none runs
    form,      \* per client: the form fields (kernel, C) of its running /api/train call
    retval,    \* per client: the local `metrics` of train_model (value of update_metrics)
    response,  \* the response to the latest request, "none" while it is being handled
    url        \* the URL the /api/predict client submits

vars == <<phase, kernel, metrics, store, pc, form, retval, response, url>>

-----------------------------------------------------------------------------
(* Bounds of the model *)

NumClients == 2    \* clients that may have an /api/train call under way
MaxTokens == 3     \* tokens a submitted URL is made of
ScoreSpan == 10    \* scores -ScoreSpan..ScoreSpan are fed to the derivation

Clients == 1..NumClients

-----------------------------------------------------------------------------
(* Character sequences *)

UpperAlpha == <<"A","B","C","D","E","F","G","H","I","J","K","L","M",
                "N","O","P","Q","R","S","T","U","V","W","X","Y","Z">>
LowerAlpha == <<"a","b","c","d","e","f","g","h","i","j","k","l","m",
                "n","o","p","q","r","s","t","u","v","w","x","y","z">>

LowerChar(c) ==
    IF \E i \in 1..Len(UpperAlpha) : UpperAlpha[i] = c
    THEN LowerAlpha[CHOOSE i \in 1..Len(UpperAlpha) : UpperAlpha[i] = c]
    ELSE c

\* str.lower()
Lower(s) == [i \in 1..Len(s) |-> LowerChar(s[i])]

\* `w in s` for strings
Contains(s, w) ==
    \E i \in 1..(Len(s) - Len(w) + 1) : SubSeq(s, i, i + Len(w) - 1) = w

\* s.startswith(p)
StartsWith(s, p) == Len(s) >= Len(p) /\ SubSeq(s, 1, Len(p)) = p

\* s.count(c) for a one-character c
Count(s, c) == Cardinality({i \in 1..Len(s) : s[i] = c})

W_phishing  == <<"p","h","i","s","h","i","n","g">>
W_malware   == <<"m","a","l","w","a","r","e">>
W_malicious == <<"m","a","l","i","c","i","o","u","s">>
W_hack      == <<"h","a","c","k">>
W_example   == <<"e","x","a","m","p","l","e",".","c","o","m">>
W_google    == <<"g","o","o","g","l","e",".","c","o","m">>
W_github    == <<"g","i","t","h","u","b",".","c","o","m">>
W_wikipedia == <<"w","i","k","i","p","e","d","i","a",".","o","r","g">>
W_https     == <<"h","t","t","p","s",":","/","/">>

SuspiciousWords == {W_phishing, W_malware, W_malicious, W_hack}
TrustedWords    == {W_example, W_google, W_github, W_wikipedia}

-----------------------------------------------------------------------------
(* SVMModel.predict *)

SuspiciousWeight == 3
TrustedWeight == 2
SchemeWeight == 1
DotWeight == 1
SlashWeight == 1
AtWeight == 2
LengthWeight == 1
DotLimit == 3
SlashLimit == 5
LengthLimit == 100
MaliciousThreshold == 1
HighThreshold == 3
BaseConfidence == 7000
ConfidenceStep == 500
MinConfidence == 6000
MaxConfidence == 9800
One == 10000
FeaturesCount == 8

Min(a, b) == IF a <= b THEN a ELSE b
Max(a, b) == IF a >= b THEN a ELSE b

\* lines 91-92
SuspiciousPoints(u) ==
    IF \E w \in SuspiciousWords : Contains(Lower(u), w) THEN SuspiciousWeight ELSE 0

\* lines 93-94
TrustedPoints(u) ==
    IF \E w \in TrustedWords : Contains(Lower(u), w) THEN 0 - TrustedWeight ELSE 0

\* RiskScore without the scheme rule of lines 95-96
RiskScoreNoScheme(u) ==
      SuspiciousPoints(u)
    + TrustedPoints(u)
    + (IF Count(u, ".") > DotLimit THEN DotWeight ELSE 0)
    + (IF Count(u, "/") > SlashLimit THEN SlashWeight ELSE 0)
    + (IF Count(u, "@") > 0 THEN AtWeight ELSE 0)
    + (IF Len(u) > LengthLimit THEN LengthWeight ELSE 0)

\* lines 87-104: the additive rule table
RiskScore(u) ==
      SuspiciousPoints(u)
    + TrustedPoints(u)
    + (IF ~ StartsWith(u, W_https) THEN SchemeWeight ELSE 0)
    + (IF Count(u, ".") > DotLimit THEN DotWeight ELSE 0)
    + (IF Count(u, "/") > SlashLimit THEN SlashWeight ELSE 0)
    + (IF Count(u, "@") > 0 THEN AtWeight ELSE 0)
    + (IF Len(u) > LengthLimit THEN LengthWeight ELSE 0)

\* Confidence without the clamp of line 108
ConfidenceUnclamped(score) == BaseConfidence + score * ConfidenceStep

\* lines 107-108
Confidence(score) ==
    Min(MaxConfidence, Max(MinConfidence, BaseConfidence + score * ConfidenceStep))

\* round(x, 3): to the nearest thousandth, ties to the even thousandth
Round3(x) ==
    LET q == x \div 10
        r == x % 10
    IN  IF r < 5 THEN 10 * q
        ELSE IF r > 5 THEN 10 * (q + 1)
        ELSE IF q % 2 = 0 THEN 10 * q ELSE 10 * (q + 1)

\* lines 106-121: the classification derived from a score.  The two literal
\* texts of lines 112 and 118 are kept as short ASCII labels.
Classification(u, score) ==
    LET is_malicious == score > MaliciousThreshold
        confidence == Confidence(score)
    IN  [ kind |-> "predict",
          status |-> 200,
          url |-> u,
          prediction |-> IF is_malicious THEN "MALICIOSA" ELSE "LEGITIMA",
          confidence |-> Round3(confidence),
          is_malicious |-> is_malicious,
          probability_malicious |->
              Round3(IF is_malicious THEN confidence ELSE One - confidence),
          probability_legitimate |->
              Round3(IF is_malicious THEN One - confidence ELSE confidence),
          features_count |-> FeaturesCount,
          recommendation |-> IF is_malicious THEN "sospechosa" ELSE "segura",
          risk_level |-> IF score > HighThreshold THEN "ALTO"
                         ELSE IF score > MaliciousThreshold THEN "MEDIO" ELSE "BAJO",
          risk_score |-> score ]

\* lines 85-121
Predict(u) == Classification(u, RiskScore(u))

-----------------------------------------------------------------------------
(* The URLs submitted: concatenations of at most MaxTokens tokens *)

T_http     == <<"h","t","t","p",":","/","/">>
T_HTTPS    == <<"H","T","T","P","S",":","/","/">>
T_Phishing == <<"P","h","i","s","h","i","n","g">>
T_GitHub   == <<"G","i","t","H","u","b",".","c","o","m">>
T_at       == <<"@">>
T_dots     == <<"a",".","b",".","c",".","d">>
T_slashes  == <<"/","a","/","b","/","c","/","d">>
T_evil     == <<"e","v","i","l",".","r","u">>
T_long     == [i \in 1..(LengthLimit + 1) |-> "x"]

Tokens == { W_https, T_http, T_HTTPS, W_phishing, T_Phishing, W_example, T_GitHub,
            T_at, T_dots, T_slashes, T_evil, T_long }

RECURSIVE Concat(_)
Concat(ts) == IF ts = <<>> THEN <<>> ELSE Head(ts) \o Concat(Tail(ts))

Urls == { Concat(ts) : ts \in UNION { [1..n -> Tokens] : n \in 0..MaxTokens } }

-----------------------------------------------------------------------------
(* SVMModel: the in-memory model state *)

MetricKeys == {"accuracy", "precision", "recall", "f1_score"}

\* lines 129-134
BaseMetrics ==
    [ rbf     |-> [accuracy |-> 9200, precision |-> 8900, recall |-> 9100, f1_score |-> 9000],
      linear  |-> [accuracy |-> 8800, precision |-> 8500, recall |-> 8700, f1_score |-> 8600],
      poly    |-> [accuracy |-> 9000, precision |-> 8700, recall |-> 8900, f1_score |-> 8800],
      sigmoid |-> [accuracy |-> 8500, precision |-> 8200, recall |-> 8400, f1_score |-> 8300] ]

Kernels == DOMAIN BaseMetrics

\* lines 62-68
DefaultKernel == "rbf"
DefaultMetrics ==
    [accuracy |-> 9200, precision |-> 8900, recall |-> 9100, f1_score |-> 9000]
NFeatures == 20

JitterMax == 200
MinMetric == 7000
MaxMetric == 9900

\* random.uniform(-0.02, 0.02), line 138: the two ends of the range
Jitters == {0 - JitterMax, JitterMax}

\* line 138
Jittered(k, j) == [m \in MetricKeys |-> BaseMetrics[k][m] + j[m]]

\* line 139
Clamped(ms) == [m \in DOMAIN ms |-> Min(MaxMetric, Max(MinMetric, ms[m]))]

\* AfterLine138 with a fallback to the default kernel's row for an unknown name
AfterLine138Fallback(k, ms, j) ==
    Jittered(IF k \in Kernels THEN k ELSE DefaultKernel, j)

\* lines 136-138: self.metrics after the first statement of the if, or as it
\* was when the kernel is not in the table
AfterLine138(k, ms, j) == IF k \in Kernels THEN Jittered(k, j) ELSE ms

\* lines 136 and 139: self.metrics after the second statement of the if
AfterLine139(k, ms) == IF k \in Kernels THEN Clamped(ms) ELSE ms

-----------------------------------------------------------------------------
(* The persistence file MODEL_DIR / "svm_model.pkl" *)

Missing    == [kind |-> "missing"]      \* model_path.exists() is false
Unreadable == [kind |-> "unreadable"]   \* joblib.load raises (truncated, not a pickle)
Scalar     == [kind |-> "scalar"]       \* unpickles to an object on which `in` raises
Dict(d)    == [kind |-> "dict", data |-> d]

\* time.time(), line 289: written, never read back by the program
Now == "time.time()"

\* lines 285-290: the record joblib.dump writes
TrainRecord(f, ms) ==
    [kernel |-> f.kernel, C |-> f.C, metrics |-> ms, timestamp |-> Now]

\* Records found in the file that this version of the program did not write
LegacyMetrics ==
    [accuracy |-> 9950, precision |-> 6500, recall |-> 9100, f1_score |-> 9000, auc |-> 9700]
LegacyRecord  == [metrics |-> LegacyMetrics]
BareRecord    == [kernel |-> "rbf"]

StoreContents == {Missing, Unreadable, Scalar, Dict(BareRecord), Dict(LegacyRecord)}

HasMetrics(st) == st.kind = "dict" /\ "metrics" \in DOMAIN st.data

IsTrainRecord(st) ==
    st.kind = "dict" /\ DOMAIN st.data = {"kernel", "C", "metrics", "timestamp"}

\* load_model without the try/except of lines 74-80
LoadModelNoExcept(st, ms) ==
    IF st.kind = "missing" THEN [raised |-> FALSE, metrics |-> ms]
    ELSE IF st.kind \in {"unreadable", "scalar"}
         THEN [raised |-> TRUE, metrics |-> ms]
    ELSE IF "metrics" \in DOMAIN st.data
         THEN [raised |-> FALSE, metrics |-> st.data.metrics]
    ELSE [raised |-> FALSE, metrics |-> ms]

\* lines 70-83
LoadModel(st, ms) ==
    IF st.kind = "missing" THEN [raised |-> FALSE, metrics |-> ms]
    ELSE IF st.kind \in {"unreadable", "scalar"}
         THEN [raised |-> FALSE, metrics |-> ms]                 \* except: line 79
    ELSE IF "metrics" \in DOMAIN st.data
         THEN [raised |-> FALSE, metrics |-> st.data.metrics]    \* line 77
    ELSE [raised |-> FALSE, metrics |-> ms]

-----------------------------------------------------------------------------
(* The event loop: every handler is an `async def` coroutine *)

\* The persistence write awaited (handed to a worker), so that the loop runs
\* other handlers while it is under way
AwaitAtDump(l) == l = "L285"

\* Whether a train_model coroutine standing at label l has given up the event
\* loop there: the body of train_model holds no await.
AtAwait(l) == FALSE

LoopFree   == \A q \in Clients : pc[q] = "idle" \/ AtAwait(pc[q])
CanRun(c)  == \A q \in Clients \ {c} : pc[q] = "idle" \/ AtAwait(pc[q])
Quiescent  == \A q \in Clients : pc[q] = "idle"

\* The exception of joblib.dump swallowed: control goes on to the return
OnDumpErrorSwallowed == "L292"

\* Where control goes when joblib.dump raises: except Exception, lines 299-300
OnDumpError == "L300"

\* The kernel names submitted: the default one, another of the table, one not in it
KernelInputs == {"rbf", "sigmoid", "unknown-kernel"}
CInputs      == {10000}

NoForm     == [kernel |-> "", C |-> 0]
NoMetrics  == [m \in MetricKeys |-> 0]
NoResponse == [kind |-> "none"]

SampleUrls == { T_http \o W_example \o T_at \o T_evil \o W_phishing }

-----------------------------------------------------------------------------
(* Initial states: the module has been imported, model = SVMModel() *)

InitModel ==
    /\ phase = "starting"
    /\ kernel = DefaultKernel
    /\ metrics = DefaultMetrics
    /\ pc = [c \in Clients |-> "idle"]
    /\ form = [c \in Clients |-> NoForm]
    /\ retval = [c \in Clients |-> NoMetrics]
    /\ response = NoResponse

Init ==
    /\ InitModel
    /\ store \in StoreContents
    /\ url \in SampleUrls

InitPredict ==
    /\ InitModel
    /\ store = Missing
    /\ url \in Urls

-----------------------------------------------------------------------------
(* Actions *)

\* lines 197-200
StartupEvent ==
    /\ phase = "starting"
    /\ LET r == LoadModel(store, metrics)
       IN  /\ metrics' = r.metrics
           /\ phase' = IF r.raised THEN "crashed" ELSE "serving"
    /\ UNCHANGED <<kernel, store, pc, form, retval, response, url>>

\* The process is stopped and started again (uvicorn lets running handlers
\* finish first): lines 143 and 59-68
Restart ==
    /\ phase = "serving"
    /\ Quiescent
    /\ phase' = "starting"
    /\ kernel' = DefaultKernel
    /\ metrics' = DefaultMetrics
    /\ response' = NoResponse
    /\ UNCHANGED <<store, pc, form, retval, url>>

\* lines 220-227
PredictRequest ==
    /\ phase = "serving"
    /\ LoopFree
    /\ response' = Predict(url)
    /\ UNCHANGED <<phase, kernel, metrics, store, pc, form, retval, url>>

\* lines 229-239
ModelInfo ==
    /\ phase = "serving"
    /\ LoopFree
    /\ response' = [kind |-> "model-info", status |-> 200, is_trained |-> TRUE,
                    n_features |-> NFeatures, kernel |-> kernel, metrics |-> metrics]
    /\ UNCHANGED <<phase, kernel, metrics, store, pc, form, retval, url>>

\* lines 146-151 and 241-246
ChartValues(ms) ==
    [i \in 1..4 |-> 100 * ms[<<"accuracy", "precision", "recall", "f1_score">>[i]]]

MetricsChart ==
    /\ phase = "serving"
    /\ LoopFree
    /\ response' = IF MetricKeys \subseteq DOMAIN metrics
                   THEN [kind |-> "metrics-chart", status |-> 200,
                         values |-> ChartValues(metrics)]
                   ELSE [kind |-> "metrics-chart", status |-> 500]
    /\ UNCHANGED <<phase, kernel, metrics, store, pc, form, retval, url>>

\* lines 270-280 and 136-138: the request is dispatched, time.sleep(1.5) blocks
\* the loop, update_metrics is entered and runs to the end of line 138
TrainBegin(c, k, cv) ==
    /\ phase = "serving"
    /\ pc[c] = "idle"
    /\ CanRun(c)
    /\ form' = [form EXCEPT ![c] = [kernel |-> k, C |-> cv]]
    /\ response' = NoResponse
    /\ \E j \in [MetricKeys -> Jitters] : metrics' = AfterLine138(k, metrics, j)
    /\ pc' = [pc EXCEPT ![c] = "L139"]
    /\ UNCHANGED <<phase, kernel, store, retval, url>>

\* lines 139-140 and 280-281: the second assignment to self.metrics, the
\* return of update_metrics into the local `metrics`, model.kernel = kernel
UpdateClamp(c) ==
    /\ pc[c] = "L139"
    /\ CanRun(c)
    /\ metrics' = AfterLine139(form[c].kernel, metrics)
    /\ retval' = [retval EXCEPT ![c] = metrics']
    /\ kernel' = form[c].kernel
    /\ pc' = [pc EXCEPT ![c] = "L285"]
    /\ UNCHANGED <<phase, store, form, response, url>>

\* lines 284-290: joblib.dump writes the record
DumpOk(c) ==
    /\ pc[c] = "L285"
    /\ CanRun(c)
    /\ store' = Dict(TrainRecord(form[c], retval[c]))
    /\ pc' = [pc EXCEPT ![c] = "L292"]
    /\ UNCHANGED <<phase, kernel, metrics, form, retval, response, url>>

\* lines 284-290: joblib.dump raises; the file is as it was (it could not be
\* opened) or is left truncated
DumpFail(c) ==
    /\ pc[c] = "L285"
    /\ CanRun(c)
    /\ store' \in {store, Unreadable}
    /\ pc' = [pc EXCEPT ![c] = OnDumpError]
    /\ UNCHANGED <<phase, kernel, metrics, form, retval, response, url>>

\* lines 292-297
TrainReturn(c) ==
    /\ pc[c] = "L292"
    /\ CanRun(c)
    /\ response' = [kind |-> "train", status |-> 200, kernel |-> form[c].kernel,
                    C |-> form[c].C, metrics |-> retval[c]]
    /\ pc' = [pc EXCEPT ![c] = "idle"]
    /\ form' = [form EXCEPT ![c] = NoForm]
    /\ retval' = [retval EXCEPT ![c] = NoMetrics]
    /\ UNCHANGED <<phase, kernel, metrics, store, url>>

\* line 300
TrainRaise(c) ==
    /\ pc[c] = "L300"
    /\ CanRun(c)
    /\ response' = [kind |-> "train", status |-> 500]
    /\ pc' = [pc EXCEPT ![c] = "idle"]
    /\ form' = [form EXCEPT ![c] = NoForm]
    /\ retval' = [retval EXCEPT ![c] = NoMetrics]
    /\ UNCHANGED <<phase, kernel, metrics, store, url>>

Next ==
    \/ StartupEvent
    \/ Restart
    \/ PredictRequest
    \/ ModelInfo
    \/ MetricsChart
    \/ \E c \in Clients, k \in KernelInputs, cv \in CInputs : TrainBegin(c, k, cv)
    \/ \E c \in Clients : UpdateClamp(c)
    \/ \E c \in Clients : DumpOk(c)
    \/ \E c \in Clients : DumpFail(c)
    \/ \E c \in Clients : TrainReturn(c)
    \/ \E c \in Clients : TrainRaise(c)

Spec == Init /\ [][Next]_vars

NextPredict ==
    \/ StartupEvent
    \/ PredictRequest

SpecPredict == InitPredict /\ [][NextPredict]_vars

-----------------------------------------------------------------------------
(* Properties *)

Abs(x) == IF x >= 0 THEN x ELSE 0 - x

TrainSucceeded == response.kind = "train" /\ response.status = 200
TrainFailed    == response.kind = "train" /\ response.status = 500

\* No request has been handled since startup_event ran
JustLoaded == phase = "serving" /\ Quiescent /\ response = NoResponse

\* C1: a retrain call whose kernel name is not in the table leaves the
\* in-memory metrics as they were, from its dispatch to its return: no step
\* taken while the call is under way changes model.metrics, and the success
\* response of the call carries those same metrics.
C1_UnknownKernelKeepsMetrics ==
    [][ \A c \in Clients :
          ( \/ (pc[c] # "idle" /\ form[c].kernel \notin Kernels)
            \/ (pc[c] = "idle" /\ pc'[c] # "idle" /\ form'[c].kernel \notin Kernels) )
          => /\ metrics' = metrics
             /\ (pc'[c] = "idle" /\ response'.kind = "train" /\ response'.status = 200)
                    => response'.metrics = metrics ]_vars

C1_Witness ==
    /\ TrainSucceeded
    /\ response.kernel \notin Kernels
    /\ response.metrics = metrics
    /\ metrics # DefaultMetrics

\* C2: model.kernel, the name model-info reports and the persisted record
\* carries, is always one of rbf, linear, poly, sigmoid.
C2_KernelInTable ==
    /\ kernel \in Kernels
    /\ (IsTrainRecord(store) => store.data.kernel \in Kernels)

\* C3: model.metrics always holds exactly the four keys accuracy, precision,
\* recall, f1_score, each value in [0.7, 0.99], and the quadruple a retrain on a
\* recognized kernel produces is within 0.02 of that kernel's baseline.
C3_MetricsInRange ==
    /\ DOMAIN metrics = MetricKeys
    /\ \A m \in DOMAIN metrics : MinMetric <= metrics[m] /\ metrics[m] <= MaxMetric
    /\ \A c \in Clients :
          (pc[c] = "L285" /\ form[c].kernel \in Kernels)
          => \A m \in MetricKeys :
                Abs(retval[c][m] - BaseMetrics[form[c].kernel][m]) <= JitterMax

\* C4: load_model never raises, whatever the file holds; right after startup
\* the metrics are the file's metrics field when the file was read and has
\* one, and the compiled-in rbf defaults when the file is missing, unreadable
\* or malformed.
C4_LoadNeverFails ==
    /\ phase # "crashed"
    /\ JustLoaded =>
          metrics = IF HasMetrics(store) THEN store.data.metrics ELSE DefaultMetrics

C4_Witness ==
    /\ JustLoaded
    /\ store.kind \in {"unreadable", "scalar"}
    /\ metrics = DefaultMetrics

\* C5: a retrain call returns the success response only from a state in which
\* the file holds the record of that very call; a call whose write failed
\* stands at line 300 and ends with the failure response.
C5_WriteFailureSurfaced ==
    [][ \A c \in Clients :
          /\ (pc[c] # "idle" /\ pc'[c] = "idle" /\ response'.kind = "train"
                /\ response'.status = 200)
             => store = Dict(TrainRecord(form[c], retval[c]))
          /\ (pc[c] = "L285" /\ pc'[c] # "L285"
                /\ store' # Dict(TrainRecord(form[c], retval[c])))
             => pc'[c] = "L300"
          /\ (pc[c] = "L300" /\ pc'[c] = "idle")
             => (response'.kind = "train" /\ response'.status = 500) ]_vars

C5_Witness ==
    /\ TrainFailed
    /\ Quiescent
    /\ store = Unreadable

\* C6: after a successful retrain, a restart followed by load restores the
\* saved record: the metrics are the record's metrics and the kernel name
\* reported is the record's kernel.
C6_RestartRestoresRecord ==
    (JustLoaded /\ IsTrainRecord(store))
    => /\ metrics = store.data.metrics
       /\ kernel = store.data.kernel

HighRisk(r) == r.risk_score >= 4 /\ r.is_malicious /\ r.risk_level = "ALTO"

\* C7 as stated: every URL that contains "phishing" and does not start with
\* "https://" gets risk_score >= 4, is_malicious and risk_level ALTO.
C7_PhishingIsHigh ==
    (response.kind = "predict"
       /\ Contains(response.url, W_phishing)
       /\ ~ StartsWith(response.url, W_https))
    => HighRisk(response)

\* C7 as amended: every URL that contains "phishing", does not start with
\* "https://" and contains none of the trusted-domain tokens in any letter
\* case gets risk_score >= 4, is_malicious and risk_level ALTO.
C7_PhishingUntrustedIsHigh ==
    (response.kind = "predict"
       /\ Contains(response.url, W_phishing)
       /\ ~ StartsWith(response.url, W_https)
       /\ ~ \E w \in TrustedWords : Contains(Lower(response.url), w))
    => HighRisk(response)

C7_Witness ==
    /\ response.kind = "predict"
    /\ Contains(response.url, W_phishing)
    /\ ~ StartsWith(response.url, W_https)
    /\ ~ \E w \in TrustedWords : Contains(Lower(response.url), w)
    /\ response.risk_score = 4
    /\ response.risk_level = "ALTO"

ProbabilitiesSound(r) ==
    /\ MinConfidence <= r.confidence /\ r.confidence <= MaxConfidence
    /\ r.probability_malicious =
          IF r.is_malicious THEN r.confidence ELSE One - r.confidence
    /\ Abs(r.probability_malicious + r.probability_legitimate - One) <= 10

\* C8: for the classification of every URL, and of every score from
\* -ScoreSpan to +ScoreSpan, the confidence is in [0.6, 0.98],
\* probability_malicious is the confidence when malicious and 1 - confidence
\* otherwise, and the two probabilities add up to 1 within 0.001.
C8_ProbabilitiesSound ==
    /\ response.kind = "predict" => ProbabilitiesSound(response)
    /\ \A sc \in (0 - ScoreSpan)..ScoreSpan : ProbabilitiesSound(Classification(url, sc))

C8_Witness ==
    /\ response.kind = "predict"
    /\ response.is_malicious
    /\ response.risk_score > 5
    /\ response.confidence = MaxConfidence
    /\ response.probability_legitimate = One - MaxConfidence

\* Between the first write to model.metrics and the end of the persistence write
Critical == {"L139", "L285"}

\* C9: a retrain's metrics update, kernel update and persistence write act
\* as one unit: while a call is between its first write to model.metrics and
\* the end of its persistence write no other handler takes a step and no
\* response is sent, and at the persistence write model.metrics and
\* model.kernel are those of the call that writes.
C9_RetrainIsAtomic ==
    /\ [](\A c \in Clients :
            pc[c] = "L285" => (metrics = retval[c] /\ kernel = form[c].kernel))
    /\ [][ \A c \in Clients :
             pc[c] \in Critical
             => /\ \A q \in Clients \ {c} : pc'[q] = pc[q]
                /\ response' = response ]_vars

C9_Witness ==
    \E c \in Clients :
        /\ pc[c] = "L285"
        /\ form[c].kernel \in Kernels
        /\ IsTrainRecord(store)
        /\ store.data.metrics # metrics
        /\ metrics = retval[c]

\* C10: a retrain call that failed on its persistence write leaves the
\* in-memory state as it was before the call, so that whenever no call is
\* under way and the file holds a record written by retrain, model.metrics
\* are that record's metrics.
C10_MemoryMatchesRecord ==
    (phase = "serving" /\ Quiescent /\ IsTrainRecord(store))
    => metrics = store.data.metrics

====
